---- MODULE Spec2Model ----
(***************************************************************************)
(* Model of the Odoo MCP bridge: OdooClient (odoo_client.py), the XML-RPC  *)
(* session client, and the tool dispatcher call_tool (server.py).  The     *)
(* remote Odoo server is the environment: every remote procedure call has  *)
(* an outcome drawn from a small set (answered, rejected, transport error).*)
(***************************************************************************)
EXTENDS Integers, Sequences, FiniteSets, TLC

VARIABLES
    pc,            \* server: "boot", "serving", "responding", "raised"; a script using the
                   \* client directly: "client", "returned"
    odoo_client,   \* server.py global: NoClient or an OdooClient object
    cl,            \* an OdooClient object used directly through its methods
    store,         \* remote database: record id -> [model, vals]
    nextId,        \* remote id sequence: the id the next create returns
    last,          \* observation of the latest call: name, arguments, rpcs, result
    submitted,     \* id -> values submitted by create_record, until updated or deleted
    deleted,       \* ids removed by a successful delete_record
    updModes       \* failure modes seen for update_record on a nonexistent id

vars == <<pc, odoo_client, cl, store, nextId, last, submitted, deleted, updModes>>

----------------------------------------------------------------------------
\* Bounds of the model

MaxId == 2
MaxSearchRecords == 102

----------------------------------------------------------------------------
\* Python values

None == "None"
False == "False"
True == "True"
NoClient == [none |-> TRUE]

\* a guard that tests `self.uid is None` instead of `not self.uid`
TruthyNotNone(v) == v # None

\* Python truthiness of a session identifier: `not self.uid`
Truthy(v) == v \notin {None, False}

Ret(v) == [exc |-> FALSE, val |-> v]
Raise(m) == [exc |-> TRUE, val |-> m]

Min(a, b) == IF a < b THEN a ELSE b
Take(s, n) == SubSeq(s, 1, Min(n, Len(s)))

\* dict.get(k, d), and a defaulted parameter
Get(d, k, dflt) == IF k \in DOMAIN d THEN d[k] ELSE dflt

----------------------------------------------------------------------------
\* Program constants

SchemaLimitDefault == 10
DefaultLimitClient == 100
\* a search_records that leaves the limit to the client's default
DefaultLimitAsClient == DefaultLimitClient
DefaultLimitTool == 10
ListModelsLimit == 500
ModelsShown == 20

config == [database |-> "db", username |-> "admin", password |-> "pw"]

----------------------------------------------------------------------------
\* The remote server's data

Uid == "uid:2"
Models == {"res.partner"}
FieldNames == {"name", "ref"}
Vals == {"v1"}
ValuesMaps == UNION {[S -> Vals] : S \in SUBSET FieldNames}
Defaults == [f \in FieldNames |-> False]
IrModels == <<[id |-> 1, model |-> "res.partner", name |-> "Contact"]>>
FieldsMeta == [f \in FieldNames |-> [type |-> "char", required |-> FALSE]]

AuthOutcomes == {Uid, False, "exc"}
VersionOutcomes == {"ok", "exc"}
RemoteOutcomes == {"ok", "fault", "transport"}
MissingModes == {"false", "raise"}

----------------------------------------------------------------------------
\* The remote server (XML-RPC endpoints /xmlrpc/2/common and /xmlrpc/2/object).
\* st is [store, nextId]; the outcome `out` says whether the server answers the
\* request, rejects it with a fault, or the transport fails.

DomainTerm == <<"name", "=", "v1">>
Matches(vals, domain) == \A i \in 1..Len(domain) : vals[domain[i][1]] = domain[i][3]

IdSeq(n) == [i \in 1..n |-> i]
SeqToSet(s) == {s[i] : i \in 1..Len(s)}

Exists(st, model, i) == i \in DOMAIN st.store /\ st.store[i].model = model

\* the stored record as the server returns it: its id and the wanted fields
RecordView(st, i, kw) ==
    LET wanted == IF "fields" \in DOMAIN kw THEN SeqToSet(kw.fields) ELSE FieldNames
    IN  [id |-> i, vals |-> [f \in wanted |-> st.store[i].vals[f]]]

Found(st, model, domain, kw) ==
    LET hits == SelectSeq(IdSeq(st.nextId - 1),
                          LAMBDA i : Exists(st, model, i) /\ Matches(st.store[i].vals, domain))
    IN  IF "limit" \in DOMAIN kw THEN Take(hits, kw.limit) ELSE hits

\* a request the server answers; mm is how it reports a write or unlink of a
\* record that does not exist (a false result, or a fault)
Answer(st, rpc, mm) ==
    CASE rpc.method = "search" ->
           [res |-> Ret(Found(st, rpc.model, rpc.args[1], rpc.kw)), st |-> st]
      [] rpc.method = "search_read" ->
           IF rpc.model = "ir.model"
           THEN [res |-> Ret(Take(IrModels, rpc.kw.limit)), st |-> st]
           ELSE LET ids == Found(st, rpc.model, rpc.args[1], rpc.kw)
                IN  [res |-> Ret([k \in 1..Len(ids) |-> RecordView(st, ids[k], rpc.kw)]),
                     st |-> st]
      [] rpc.method = "read" ->
           LET ids == SelectSeq(rpc.args[1], LAMBDA i : Exists(st, rpc.model, i))
           IN  [res |-> Ret([k \in 1..Len(ids) |-> RecordView(st, ids[k], rpc.kw)]),
                st |-> st]
      [] rpc.method = "create" ->
           LET values == rpc.args[1]
               rec == [model |-> rpc.model,
                       vals |-> [f \in FieldNames |->
                                   IF f \in DOMAIN values THEN values[f] ELSE Defaults[f]]]
           IN  [res |-> Ret(st.nextId),
                st |-> [store |-> [i \in DOMAIN st.store \cup {st.nextId} |->
                                     IF i = st.nextId THEN rec ELSE st.store[i]],
                        nextId |-> st.nextId + 1]]
      [] rpc.method = "write" ->
           LET ids == SeqToSet(rpc.args[1])
               values == rpc.args[2]
           IN  IF \A i \in ids : Exists(st, rpc.model, i)
               THEN [res |-> Ret(True),
                     st |-> [st EXCEPT !.store =
                               [i \in DOMAIN st.store |->
                                  IF i \in ids
                                  THEN [st.store[i] EXCEPT !.vals =
                                          [f \in FieldNames |->
                                             IF f \in DOMAIN values THEN values[f] ELSE @[f]]]
                                  ELSE st.store[i]]]]
               ELSE [res |-> IF mm = "false" THEN Ret(False) ELSE Raise("MissingError"),
                     st |-> st]
      [] rpc.method = "unlink" ->
           LET ids == SeqToSet(rpc.args[1])
           IN  IF \A i \in ids : Exists(st, rpc.model, i)
               THEN [res |-> Ret(True),
                     st |-> [st EXCEPT !.store = [i \in DOMAIN st.store \ ids |-> st.store[i]]]]
               ELSE [res |-> IF mm = "false" THEN Ret(False) ELSE Raise("MissingError"),
                     st |-> st]
      [] rpc.method = "fields_get" ->
           [res |-> Ret(FieldsMeta), st |-> st]

\* models_endpoint.execute_kw(db, uid, password, model, method, args, kw)
execute_kw(st, rpc, out, mm) ==
    CASE out = "ok"        -> Answer(st, rpc, mm)
      [] out = "fault"     -> [res |-> Raise("Fault"), st |-> st]
      [] out = "transport" -> [res |-> Raise("ProtocolError"), st |-> st]

\* a remote call as it goes out; the log keeps it with the reply that came back
Rpc(self, model, method, args, kw) ==
    [method |-> method, db |-> self.db, uid |-> self.uid, password |-> self.password,
     model |-> model, args |-> args, kw |-> kw]

----------------------------------------------------------------------------
\* OdooClient (odoo_client.py).  Every method returns
\*   [self, res, rpcs, st]: the object afterwards, the value returned or the
\*   exception raised, the remote calls issued, and the remote state.

OdooClient == [db |-> config.database, username |-> config.username,
               password |-> config.password, uid |-> None]

NotConnected(self, st) ==
    [self |-> self, res |-> Raise("No conectado a Odoo"), rpcs |-> <<>>, st |-> st]

\* the call as logged, with the reply, and what the wrapper returns or raises
Logged(self, rpc, r) ==
    [self |-> self, res |-> r.res, rpcs |-> <<rpc @@ [reply |-> r.res]>>, st |-> r.st]

\* self.models_endpoint.execute_kw(self.db, self.uid, self.password, ...)
Call(self, st, model, method, args, kw, out, mm) ==
    Logged(self, Rpc(self, model, method, args, kw),
           execute_kw(st, Rpc(self, model, method, args, kw), out, mm))

\* self.common.authenticate(db, username, password, {}): ao is the session
\* identifier, False when the credentials are rejected, "exc" when the call raises
AuthRpc(self, ao) ==
    [method |-> "authenticate", db |-> self.db, login |-> self.username,
     password |-> self.password,
     reply |-> IF ao = "exc" THEN Raise("ProtocolError") ELSE Ret(ao)]

\* connect() that returns `self.uid is not None`
connect_is_not_None(self, st, ao) ==
    IF ao = "exc"
    THEN [self |-> self, res |-> Ret(False), rpcs |-> <<AuthRpc(self, ao)>>, st |-> st]
    ELSE [self |-> [self EXCEPT !.uid = ao], res |-> Ret(True),
          rpcs |-> <<AuthRpc(self, ao)>>, st |-> st]

connect(self, st, ao) ==
    IF ao = "exc"
    THEN [self |-> self, res |-> Ret(False), rpcs |-> <<AuthRpc(self, ao)>>, st |-> st]
    ELSE [self |-> [self EXCEPT !.uid = ao],
          res |-> Ret(IF ao # False THEN True ELSE False),
          rpcs |-> <<AuthRpc(self, ao)>>, st |-> st]

VersionRpc(vo) ==
    [method |-> "version",
     reply |-> IF vo = "ok" THEN Ret([server_serie |-> "18.0"]) ELSE Raise("ProtocolError")]

get_version(self, st, vo) ==
    [self |-> self,
     res |-> Ret(IF vo = "ok" THEN [server_serie |-> "18.0"] ELSE [error |-> "ProtocolError"]),
     rpcs |-> <<VersionRpc(vo)>>, st |-> st]

\* `domain or []`
OrEmpty(given, k) == IF k \in DOMAIN given /\ Len(given[k]) > 0 THEN given[k] ELSE <<>>

\* `if fields: params['fields'] = fields`
WithFields(params, given) ==
    IF "fields" \in DOMAIN given /\ Len(given.fields) > 0
    THEN params @@ ("fields" :> given.fields) ELSE params

\* `given` holds the optional parameters the caller passed
search(self, st, model, given, out, mm) ==
    IF ~Truthy(self.uid) THEN NotConnected(self, st)
    ELSE Call(self, st, model, "search", <<OrEmpty(given, "domain")>>,
              ("limit" :> Get(given, "limit", DefaultLimitClient)), out, mm)

read(self, st, model, ids, given, out, mm) ==
    IF ~Truthy(self.uid) THEN NotConnected(self, st)
    ELSE Call(self, st, model, "read", <<ids>>, WithFields(<<>>, given), out, mm)

search_read(self, st, model, given, out, mm) ==
    IF ~Truthy(self.uid) THEN NotConnected(self, st)
    ELSE Call(self, st, model, "search_read", <<OrEmpty(given, "domain")>>,
              WithFields(("limit" :> Get(given, "limit", DefaultLimitClient)), given),
              out, mm)

\* create() that sends an empty record instead of `values`
create_no_values(self, st, model, values, out, mm) ==
    IF ~Truthy(self.uid) THEN NotConnected(self, st)
    ELSE Call(self, st, model, "create", <<<<>>>>, <<>>, out, mm)

create(self, st, model, values, out, mm) ==
    IF ~Truthy(self.uid) THEN NotConnected(self, st)
    ELSE Call(self, st, model, "create", <<values>>, <<>>, out, mm)

update(self, st, model, ids, values, out, mm) ==
    IF ~Truthy(self.uid) THEN NotConnected(self, st)
    ELSE Call(self, st, model, "write", <<ids, values>>, <<>>, out, mm)

\* delete() that sends an empty id list instead of `ids`
delete_no_ids(self, st, model, ids, out, mm) ==
    IF ~Truthy(self.uid) THEN NotConnected(self, st)
    ELSE Call(self, st, model, "unlink", <<<<>>>>, <<>>, out, mm)

delete(self, st, model, ids, out, mm) ==
    IF ~Truthy(self.uid) THEN NotConnected(self, st)
    ELSE Call(self, st, model, "unlink", <<ids>>, <<>>, out, mm)

get_fields(self, st, model, out, mm) ==
    IF ~Truthy(self.uid) THEN NotConnected(self, st)
    ELSE Call(self, st, model, "fields_get", <<>>,
              ("attributes" :> <<"string", "help", "type", "required">>), out, mm)

\* `[{'model': m['model'], 'name': m['name']} for m in models]`
ModelList(r) ==
    IF r.res.exc THEN r
    ELSE [r EXCEPT !.res = Ret([k \in 1..Len(r.res.val) |->
                                  [model |-> r.res.val[k].model,
                                   name |-> r.res.val[k].name]])]

list_models(self, st, out, mm) ==
    IF ~Truthy(self.uid) THEN NotConnected(self, st)
    ELSE ModelList(search_read(self, st, "ir.model",
                               [domain |-> <<>>, fields |-> <<"model", "name">>,
                                limit |-> ListModelsLimit], out, mm))

----------------------------------------------------------------------------
\* server.py

\* a session check that forgets the uid: `if not odoo_client`
NoSessionNoneOnly(oc) == oc = NoClient

\* the session check with its second `not` dropped: `not odoo_client or odoo_client.uid`
NoSessionInverted(oc) == oc = NoClient \/ Truthy(oc.uid)

NoSession(oc) == oc = NoClient \/ ~Truthy(oc.uid)

\* get_version() called whether or not connect() succeeded
ConnectedAlwaysVersion(st, vo, c) ==
    [client |-> c.self, ret |-> c.res.val,
     rpcs |-> c.rpcs \o get_version(c.self, st, vo).rpcs]

\* lines 77-85: after connect(), get_version() when it succeeded
Connected(st, vo, c) ==
    IF c.res.val = True
    THEN [client |-> c.self, ret |-> True,
          rpcs |-> c.rpcs \o get_version(c.self, st, vo).rpcs]
    ELSE [client |-> c.self, ret |-> False, rpcs |-> c.rpcs]

\* initialize_odoo(): a new OdooClient replaces the global, then connect()
\* and, when it succeeded, get_version()
initialize_odoo(st, ao, vo) == Connected(st, vo, connect(OdooClient, st, ao))

\* the catalog list_tools() advertises
ToolNames == {"connect_odoo", "list_models", "search_records", "read_record",
              "create_record", "update_record", "delete_record", "get_model_fields"}
DataTools == ToolNames \ {"connect_odoo"}

\* the text responses, by their parts
Text(kind, parts) == [kind |-> kind, parts |-> parts]
ConnectedText == Text("Conectado exitosamente a Odoo", <<>>)
ConnectErrorText == Text("Error al conectar con Odoo", <<>>)
NoConnectionText == Text("No hay conexion con Odoo", <<>>)
UnknownToolText(name) == Text("Herramienta desconocida", <<name>>)
ErrorText(e) == Text("Error", <<e>>)

\* arguments["k"] for each required key in order: the first one missing raises
Missing(arguments, keys) == \E i \in 1..Len(keys) : keys[i] \notin DOMAIN arguments

Done(oc, st, rpcs, res) == [oc |-> oc, st |-> st, rpcs |-> rpcs, res |-> res]

\* the response of a branch: the exception of the client call passes through,
\* its value is formatted as text
Formatted(oc, r, text) ==
    Done(oc, r.st, r.rpcs, IF r.res.exc THEN r.res ELSE Ret(text))

format_list_models(oc, r) ==
    Formatted(oc, r, Text("Modelos disponibles",
                          <<Take(r.res.val, ModelsShown), Len(r.res.val)>>))

format_search_records(oc, arguments, r) ==
    Formatted(oc, r, IF Len(r.res.val) = 0
                     THEN Text("No se encontraron registros", <<>>)
                     ELSE Text("Encontrados", <<Len(r.res.val), arguments.model, r.res.val>>))

format_read_record(oc, arguments, r) ==
    Formatted(oc, r, IF Len(r.res.val) = 0
                     THEN Text("No se encontro el registro", <<arguments.record_id>>)
                     ELSE Text("Registro",
                               <<arguments.model, arguments.record_id, r.res.val[1]>>))

format_create_record(oc, arguments, r) ==
    Formatted(oc, r, Text("Registro creado", <<arguments.model, r.res.val>>))

format_update_record(oc, arguments, r) ==
    Formatted(oc, r, IF Truthy(r.res.val)
                     THEN Text("Registro actualizado",
                               <<arguments.model, arguments.record_id>>)
                     ELSE Text("Error al actualizar",
                               <<arguments.model, arguments.record_id>>))

format_delete_record(oc, arguments, r) ==
    Formatted(oc, r, IF Truthy(r.res.val)
                     THEN Text("Registro eliminado",
                               <<arguments.model, arguments.record_id>>)
                     ELSE Text("Error al eliminar",
                               <<arguments.model, arguments.record_id>>))

format_get_model_fields(oc, arguments, r) ==
    Formatted(oc, r, Text("Campos del modelo", <<arguments.model, r.res.val>>))

\* one branch of the if/elif chain of call_tool, after the session check
tool_list_models(oc, st, arguments, out, mm) ==
    format_list_models(oc, list_models(oc, st, out, mm))

tool_search_records(oc, st, arguments, out, mm) ==
    IF Missing(arguments, <<"model">>) THEN Done(oc, st, <<>>, Raise("KeyError"))
    ELSE format_search_records(oc, arguments,
             search_read(oc, st, arguments.model,
                         [domain |-> Get(arguments, "domain", <<>>),
                          fields |-> Get(arguments, "fields", <<>>),
                          limit |-> Get(arguments, "limit", DefaultLimitTool)],
                         out, mm))

tool_read_record(oc, st, arguments, out, mm) ==
    IF Missing(arguments, <<"model", "record_id">>) THEN Done(oc, st, <<>>, Raise("KeyError"))
    ELSE format_read_record(oc, arguments,
             read(oc, st, arguments.model, <<arguments.record_id>>,
                  [fields |-> Get(arguments, "fields", <<>>)], out, mm))

tool_create_record(oc, st, arguments, out, mm) ==
    IF Missing(arguments, <<"model", "values">>) THEN Done(oc, st, <<>>, Raise("KeyError"))
    ELSE format_create_record(oc, arguments,
             create(oc, st, arguments.model, arguments.values, out, mm))

tool_update_record(oc, st, arguments, out, mm) ==
    IF Missing(arguments, <<"model", "record_id", "values">>)
    THEN Done(oc, st, <<>>, Raise("KeyError"))
    ELSE format_update_record(oc, arguments,
             update(oc, st, arguments.model, <<arguments.record_id>>,
                    arguments.values, out, mm))

tool_delete_record(oc, st, arguments, out, mm) ==
    IF Missing(arguments, <<"model", "record_id">>) THEN Done(oc, st, <<>>, Raise("KeyError"))
    ELSE format_delete_record(oc, arguments,
             delete(oc, st, arguments.model, <<arguments.record_id>>, out, mm))

tool_get_model_fields(oc, st, arguments, out, mm) ==
    IF Missing(arguments, <<"model">>) THEN Done(oc, st, <<>>, Raise("KeyError"))
    ELSE format_get_model_fields(oc, arguments,
             get_fields(oc, st, arguments.model, out, mm))

Dispatch(name, arguments, oc, st, out, mm) ==
    CASE name = "list_models"      -> tool_list_models(oc, st, arguments, out, mm)
      [] name = "search_records"   -> tool_search_records(oc, st, arguments, out, mm)
      [] name = "read_record"      -> tool_read_record(oc, st, arguments, out, mm)
      [] name = "create_record"    -> tool_create_record(oc, st, arguments, out, mm)
      [] name = "update_record"    -> tool_update_record(oc, st, arguments, out, mm)
      [] name = "delete_record"    -> tool_delete_record(oc, st, arguments, out, mm)
      [] name = "get_model_fields" -> tool_get_model_fields(oc, st, arguments, out, mm)
      [] OTHER                     -> Done(oc, st, <<>>, Ret(UnknownToolText(name)))

\* a handler that catches the remote errors only: `except xmlrpc.client.Error`
ExceptRemoteOnly(res) ==
    IF res.exc /\ res.val \in {"Fault", "ProtocolError", "MissingError"}
    THEN Ret([kind |-> "Error", parts |-> <<res.val>>]) ELSE res

\* `except Exception as e`: every exception raised in the body becomes a text
Except(res) == IF res.exc THEN Ret(ErrorText(res.val)) ELSE res

\* lines 233-244: connect_odoo
ConnectResult(st, i) ==
    Done(i.client, st, i.rpcs, Ret(IF i.ret = True THEN ConnectedText ELSE ConnectErrorText))
      @@ [inits |-> 1]

\* the dispatched branch, after `inits` runs of initialize_odoo that issued rpcs1
Served(rpcs1, inits, d) ==
    Done(d.oc, d.st, rpcs1 \o d.rpcs, d.res) @@ [inits |-> inits]

\* lines 249-254: after the automatic initialize_odoo()
AutoConnected(name, arguments, st, i, out, mm) ==
    IF NoSession(i.client)
    THEN Done(i.client, st, i.rpcs, Ret(NoConnectionText)) @@ [inits |-> 1]
    ELSE Served(i.rpcs, 1, Dispatch(name, arguments, i.client, st, out, mm))

\* a body that rejects a name outside the catalog before the session check
BodyUnknownFirst(name, arguments, oc, st, ao, vo, out, mm) ==
    IF name \notin ToolNames
    THEN Served(<<>>, 0, Dispatch(name, arguments, oc, st, out, mm))
    ELSE IF name = "connect_odoo"
    THEN ConnectResult(st, initialize_odoo(st, ao, vo))
    ELSE IF NoSession(oc)
    THEN AutoConnected(name, arguments, st, initialize_odoo(st, ao, vo), out, mm)
    ELSE Served(<<>>, 0, Dispatch(name, arguments, oc, st, out, mm))

\* the body of the try block
Body(name, arguments, oc, st, ao, vo, out, mm) ==
    IF name = "connect_odoo"
    THEN ConnectResult(st, initialize_odoo(st, ao, vo))
    ELSE IF NoSession(oc)
    THEN AutoConnected(name, arguments, st, initialize_odoo(st, ao, vo), out, mm)
    ELSE Served(<<>>, 0, Dispatch(name, arguments, oc, st, out, mm))

Caught(b) == [b EXCEPT !.res = Except(@)]

\* call_tool(name, arguments): [oc, st, rpcs, res, inits]; res.exc says that an
\* exception left call_tool
call_tool(name, arguments, oc, st, ao, vo, out, mm) ==
    Caught(Body(name, arguments, oc, st, ao, vo, out, mm))

----------------------------------------------------------------------------
\* Inputs: the argument maps a caller may send

Opt(k, S) == {<<>>} \cup {(k :> v) : v \in S}
Ids == 1..MaxId
FieldLists == {<<>>, <<"name">>}
Domains == {<<>>, <<DomainTerm>>}
Limits == {1}

Arguments(name) ==
    CASE name = "search_records" ->
           {a @@ b @@ c @@ d : a \in Opt("model", Models), b \in Opt("domain", Domains),
                               c \in Opt("fields", {<<"name">>}), d \in Opt("limit", Limits)}
      [] name = "read_record" ->
           {a @@ b @@ c : a \in Opt("model", Models), b \in Opt("record_id", Ids),
                          c \in Opt("fields", FieldLists)}
      [] name = "create_record" ->
           {a @@ b : a \in Opt("model", Models), b \in Opt("values", ValuesMaps)}
      [] name = "update_record" ->
           {a @@ b @@ c : a \in Opt("model", Models), b \in Opt("record_id", Ids),
                          c \in Opt("values", ValuesMaps)}
      [] name = "delete_record" ->
           {a @@ b : a \in Opt("model", Models), b \in Opt("record_id", Ids)}
      [] name = "get_model_fields" -> Opt("model", Models)
      [] OTHER -> {<<>>}

UnknownNames == {"drop_database"}
Names == ToolNames \cup UnknownNames

\* optional parameters of a direct call of a wrapper
Given(keys) ==
    {a @@ b @@ c : a \in IF "domain" \in keys THEN Opt("domain", Domains) ELSE {<<>>},
                   b \in IF "fields" \in keys THEN Opt("fields", FieldLists) ELSE {<<>>},
                   c \in IF "limit" \in keys THEN Opt("limit", Limits) ELSE {<<>>}}
IdLists == {<<i>> : i \in Ids} \cup {<<1, 2>>}

----------------------------------------------------------------------------
\* The state machine

Observe(op, name, arguments, pre, r) ==
    [op |-> op, name |-> name, arguments |-> arguments, pre |-> pre,
     rpcs |-> r.rpcs, res |-> r.res, inits |-> r.inits]

NoCall == Observe("none", "", <<>>, NoClient,
                  [rpcs |-> <<>>, res |-> Ret(Text("", <<>>)), inits |-> 0])

InitWith(start, records) ==
    /\ pc = start
    /\ odoo_client = NoClient
    /\ cl = OdooClient
    /\ store = records
    /\ nextId = Len(records) + 1
    /\ last = NoCall
    /\ submitted = <<>>
    /\ deleted = {}
    /\ updModes = {}

Init == InitWith("boot", <<>>)

Started(i) ==
    /\ odoo_client' = i.client
    /\ last' = Observe("main", "", <<>>, odoo_client,
                       [rpcs |-> i.rpcs, res |-> Ret(Text("", <<>>)), inits |-> 1])

\* main(): `await initialize_odoo()` before the server starts serving
Main ==
    /\ pc = "boot"
    /\ \E ao \in AuthOutcomes :
       \E vo \in IF ao = Uid THEN VersionOutcomes ELSE {"ok"} :
         Started(initialize_odoo([store |-> store, nextId |-> nextId], ao, vo))
    /\ pc' = "serving"
    /\ UNCHANGED <<cl, store, nextId, submitted, deleted, updModes>>

Kind(r) == r.res.val.kind

\* what the caller has submitted for each record, by the responses it got
Without(f, i) == [k \in DOMAIN f \ {i} |-> f[k]]
With(f, i, v) == [k \in DOMAIN f \cup {i} |-> IF k = i THEN v ELSE f[k]]
Overlay(old, new) == [k \in DOMAIN old \cup DOMAIN new |->
                        IF k \in DOMAIN new THEN new[k] ELSE old[k]]

NextSubmitted(arguments, r) ==
    CASE Kind(r) = "Registro creado" -> With(submitted, r.res.val.parts[2], arguments.values)
      [] Kind(r) = "Registro actualizado" /\ arguments.record_id \in DOMAIN submitted ->
           With(submitted, arguments.record_id,
                Overlay(submitted[arguments.record_id], arguments.values))
      [] Kind(r) = "Registro eliminado" -> Without(submitted, arguments.record_id)
      [] OTHER -> submitted

NextDeleted(arguments, r) ==
    IF Kind(r) = "Registro eliminado" THEN deleted \cup {arguments.record_id} ELSE deleted

NextUpdModes(name, r) ==
    CASE name = "update_record" /\ Kind(r) = "Error al actualizar" -> updModes \cup {"false"}
      [] name = "update_record" /\ Kind(r) = "Error" /\ r.res.val.parts[1] = "MissingError" ->
           updModes \cup {"raise"}
      [] OTHER -> updModes

\* the remote outcomes a call can meet: an outcome is drawn only for a remote
\* call the handler can reach
AuthFor(name) ==
    IF name = "connect_odoo" \/ NoSession(odoo_client) THEN AuthOutcomes ELSE {Uid}
VersionFor(name, ao) ==
    IF (name = "connect_odoo" \/ NoSession(odoo_client)) /\ ao = Uid
    THEN VersionOutcomes ELSE {"ok"}
RemoteFor(name) == IF name \in DataTools THEN RemoteOutcomes ELSE {"ok"}
MissingFor(name, out) ==
    IF name \in {"update_record", "delete_record"} /\ out = "ok"
    THEN MissingModes ELSE {"raise"}

\* the effect of one call_tool on the state
Serve(name, arguments, r) ==
    /\ odoo_client' = r.oc
    /\ store' = r.st.store
    /\ nextId' = r.st.nextId
    /\ last' = Observe("call_tool", name, arguments, odoo_client, r)
    /\ submitted' = IF r.res.exc THEN submitted ELSE NextSubmitted(arguments, r)
    /\ deleted' = IF r.res.exc THEN deleted ELSE NextDeleted(arguments, r)
    \* an exception that leaves call_tool leaves no response to send
    /\ pc' = IF r.res.exc THEN "raised" ELSE "responding"

\* one request served by call_tool, for a name among `names`
CallToolOf(names) ==
    /\ pc = "serving"
    /\ \E name \in names :
       \E arguments \in Arguments(name) :
       \E ao \in AuthFor(name) :
       \E vo \in VersionFor(name, ao) :
       \E out \in RemoteFor(name) :
       \E mm \in MissingFor(name, out) :
         /\ name = "create_record" => nextId <= MaxId
         /\ Serve(name, arguments,
                  call_tool(name, arguments, odoo_client,
                            [store |-> store, nextId |-> nextId], ao, vo, out, mm))
    /\ UNCHANGED cl

CallTool == CallToolOf(Names) /\ UNCHANGED updModes

\* the same, recording how update_record reported a record that does not exist
CallToolModes ==
    /\ CallToolOf(Names)
    /\ updModes' = IF last'.res.exc THEN updModes ELSE NextUpdModes(last'.name, last')

\* app.run(): the response is written to the stream and the next request is read
Respond ==
    /\ pc = "responding"
    /\ pc' = "serving"
    /\ last' = NoCall
    /\ UNCHANGED <<odoo_client, cl, store, nextId, submitted, deleted, updModes>>

\* a direct call of an OdooClient method on the object cl
Direct(op, arguments, r) ==
    /\ pc = "client"
    /\ cl' = r.self
    /\ store' = r.st.store
    /\ nextId' = r.st.nextId
    /\ last' = Observe(op, "", arguments, cl, r @@ [inits |-> 0])
    /\ pc' = "returned"
    /\ UNCHANGED <<odoo_client, submitted, deleted, updModes>>

St == [store |-> store, nextId |-> nextId]

ClConnect == \E ao \in AuthOutcomes : Direct("connect", <<>>, connect(cl, St, ao))

ClGetVersion == \E vo \in VersionOutcomes : Direct("get_version", <<>>, get_version(cl, St, vo))

ClSearch ==
    \E model \in Models, given \in Given({"domain", "limit"}), out \in RemoteOutcomes :
        Direct("search", given, search(cl, St, model, given, out, "raise"))

ClRead ==
    \E model \in Models, ids \in IdLists, given \in Given({"fields"}), out \in RemoteOutcomes :
        Direct("read", given, read(cl, St, model, ids, given, out, "raise"))

ClSearchRead ==
    \E model \in Models, given \in Given({"domain", "fields", "limit"}),
       out \in RemoteOutcomes :
        Direct("search_read", given, search_read(cl, St, model, given, out, "raise"))

ClCreate ==
    /\ nextId <= MaxId
    /\ \E model \in Models, values \in ValuesMaps, out \in RemoteOutcomes :
        Direct("create", <<>>, create(cl, St, model, values, out, "raise"))

ClUpdate ==
    \E model \in Models, ids \in IdLists, values \in ValuesMaps :
    \E out \in RemoteOutcomes, mm \in MissingModes :
        Direct("update", <<>>, update(cl, St, model, ids, values, out, mm))

ClDelete ==
    \E model \in Models, ids \in IdLists, out \in RemoteOutcomes, mm \in MissingModes :
        Direct("delete", <<>>, delete(cl, St, model, ids, out, mm))

ClGetFields ==
    \E model \in Models, out \in RemoteOutcomes :
        Direct("get_fields", <<>>, get_fields(cl, St, model, out, "raise"))

ClListModels ==
    \E out \in RemoteOutcomes : Direct("list_models", <<>>, list_models(cl, St, out, "raise"))

\* the caller takes the result
Return ==
    /\ pc = "returned"
    /\ pc' = "client"
    /\ last' = NoCall
    /\ UNCHANGED <<odoo_client, cl, store, nextId, submitted, deleted, updModes>>

Next ==
    \/ Main
    \/ CallTool
    \/ Respond

Spec == Init /\ [][Next]_vars

\* the server, with the failure modes of update_record recorded
NextModes ==
    \/ Main
    \/ CallToolModes
    \/ Respond

SpecModes == Init /\ [][NextModes]_vars

\* a script that uses an OdooClient directly
ClientInit == InitWith("client", <<>>)

ClientNext ==
    \/ ClConnect
    \/ ClGetVersion
    \/ ClSearch
    \/ ClRead
    \/ ClSearchRead
    \/ ClCreate
    \/ ClUpdate
    \/ ClDelete
    \/ ClGetFields
    \/ ClListModels
    \/ Return

ClientSpec == ClientInit /\ [][ClientNext]_vars

\* searches against a database that already holds up to MaxSearchRecords
\* records, through the server and through the client
Partners(n) == [i \in 1..n |-> [model |-> "res.partner",
                                 vals |-> [Defaults EXCEPT !.name = "v1"]]]

SearchInit ==
    \E start \in {"boot", "client"}, n \in 0..MaxSearchRecords : InitWith(start, Partners(n))

SearchNext ==
    \/ Main
    \/ CallToolOf({"search_records"}) /\ UNCHANGED updModes
    \/ Respond
    \/ ClConnect
    \/ ClSearch
    \/ ClSearchRead
    \/ Return

SearchSpec == SearchInit /\ [][SearchNext]_vars

----------------------------------------------------------------------------
\* Vocabulary of the properties

IsToolCall == last.op = "call_tool"
Live(oc) == oc # NoClient /\ oc.uid \notin {None, False}
Methods == [i \in 1..Len(last.rpcs) |-> last.rpcs[i].method]

Required(name) ==
    CASE name \in {"search_records", "get_model_fields"} -> {"model"}
      [] name \in {"read_record", "delete_record"} -> {"model", "record_id"}
      [] name = "create_record" -> {"model", "values"}
      [] name = "update_record" -> {"model", "record_id", "values"}
      [] OTHER -> {}
HasRequired == Required(last.name) \subseteq DOMAIN last.arguments

ToolMethod(name) ==
    CASE name \in {"list_models", "search_records"} -> "search_read"
      [] name = "read_record" -> "read"
      [] name = "create_record" -> "create"
      [] name = "update_record" -> "write"
      [] name = "delete_record" -> "unlink"
      [] name = "get_model_fields" -> "fields_get"

TextKinds == {"Conectado exitosamente a Odoo", "Error al conectar con Odoo",
              "No hay conexion con Odoo", "Modelos disponibles",
              "No se encontraron registros", "Encontrados", "No se encontro el registro",
              "Registro", "Registro creado", "Registro actualizado", "Error al actualizar",
              "Registro eliminado", "Error al eliminar", "Campos del modelo",
              "Herramienta desconocida", "Error"}

Wrappers == {"search", "read", "search_read", "create", "update", "delete",
             "get_fields", "list_models"}

----------------------------------------------------------------------------
\* C1: a data tool called through call_tool while no session exists first
\* attempts a connection (a new client, authenticate as the first remote call);
\* if the session exists afterwards the requested operation is performed in the
\* same call (its data call follows the connection calls), and otherwise the
\* caller gets the no-connection text, no data call is issued and no exception
\* leaves call_tool.
C1_AutoConnect ==
    (IsToolCall /\ last.name \in DataTools /\ ~Live(last.pre)) =>
        /\ last.inits = 1
        /\ Len(last.rpcs) >= 1
        /\ last.rpcs[1].method = "authenticate"
        /\ ~last.res.exc
        /\ IF Live(odoo_client)
           THEN /\ last.res.val.kind # "No hay conexion con Odoo"
                /\ HasRequired =>
                     Methods = <<"authenticate", "version", ToolMethod(last.name)>>
           ELSE /\ last.res.val.kind = "No hay conexion con Odoo"
                /\ Methods = <<"authenticate">>

\* a create_record call that connected by itself and created the record
C1_Witness ==
    /\ IsToolCall /\ last.name = "create_record" /\ ~Live(last.pre)
    /\ Live(odoo_client)
    /\ last.res.val.kind = "Registro creado"

\* C2: call_tool never lets an exception out: whatever the name, the arguments
\* and the remote outcomes, it returns one text response, and the server goes
\* on to the next request.
C2_NoEscape ==
    /\ pc # "raised"
    /\ IsToolCall =>
         /\ ~last.res.exc
         /\ last.res.val.kind \in TextKinds
         /\ pc = "responding"
         /\ ENABLED Respond

\* update_record without its arguments: the KeyError comes back as a text
C2_Witness ==
    /\ IsToolCall /\ last.name = "update_record"
    /\ ~last.res.exc
    /\ last.res.val = ErrorText("KeyError")

\* C3: a data wrapper of OdooClient called while uid is None or False raises
\* 'No conectado a Odoo' and issues no remote call; no data call ever carries
\* an absent session identifier.
C3_NoCallWithoutUid ==
    /\ (last.op \in Wrappers /\ last.pre.uid \in {None, False}) =>
         /\ last.res.exc
         /\ last.res.val = "No conectado a Odoo"
         /\ Len(last.rpcs) = 0
    /\ \A i \in 1..Len(last.rpcs) :
         last.rpcs[i].method \notin {"authenticate", "version"} =>
             last.rpcs[i].uid \notin {None, False}

\* create called after the server rejected the credentials (uid is False)
C3_Witness ==
    /\ last.op = "create"
    /\ last.pre.uid = False
    /\ last.res.exc

\* C4 as claimed: once a session identifier exists, no later call (connect_odoo
\* included) issues authenticate or replaces or clears the session handle.
C4_OneTimeAuth ==
    (IsToolCall /\ Live(last.pre)) =>
        /\ last.inits = 0
        /\ \A i \in 1..Len(last.rpcs) : last.rpcs[i].method # "authenticate"
        /\ odoo_client = last.pre

\* C4 as amended: once a session identifier exists, no call of a tool other
\* than connect_odoo issues authenticate or replaces or clears the handle;
\* every connect_odoo call builds a new client and authenticates again, and the
\* session afterwards is the one that attempt produced.
C4_OnlyConnectReauth ==
    IsToolCall =>
        /\ (last.name # "connect_odoo" /\ Live(last.pre)) =>
             /\ last.inits = 0
             /\ \A i \in 1..Len(last.rpcs) : last.rpcs[i].method # "authenticate"
             /\ odoo_client = last.pre
        /\ last.name = "connect_odoo" =>
             /\ last.inits = 1
             /\ Len(last.rpcs) >= 1
             /\ last.rpcs[1].method = "authenticate"
             /\ Live(odoo_client) <=> (~last.rpcs[1].reply.exc /\ last.rpcs[1].reply.val = Uid)

\* a record read under the session an earlier call established
C4_Witness ==
    /\ IsToolCall /\ last.name = "read_record" /\ Live(last.pre)
    /\ Methods = <<"read">>
    /\ odoo_client = last.pre

\* C5 as claimed: every invocation of an advertised tool issues exactly one
\* remote procedure call.
C5_ExactlyOneRpc ==
    (IsToolCall /\ last.name \in ToolNames) => Len(last.rpcs) = 1

ConnectionCalls ==
    IF last.name = "connect_odoo" \/ ~Live(last.pre)
    THEN IF Live(odoo_client) THEN <<"authenticate", "version">> ELSE <<"authenticate">>
    ELSE <<>>
DataCalls ==
    IF last.name \in DataTools /\ Live(odoo_client) /\ HasRequired
    THEN <<ToolMethod(last.name)>> ELSE <<>>

\* C5 as amended: connect_odoo, and a data tool called without a session, issue
\* one authenticate call followed by one version call when a session results;
\* a data tool then issues its single data call if a session exists and its
\* required arguments are present, and no call otherwise.  Exactly one remote
\* call is issued only by a data tool called with a live session and its
\* required arguments.
C5_RpcCount ==
    (IsToolCall /\ last.name \in ToolNames) =>
        /\ Methods = ConnectionCalls \o DataCalls
        /\ (last.name \in DataTools /\ Live(last.pre) /\ HasRequired) => Len(last.rpcs) = 1

\* list_models under a live session: the single search_read call
C5_Witness ==
    /\ IsToolCall /\ last.name = "list_models" /\ Live(last.pre)
    /\ Methods = <<"search_read">>

\* C6: connect() never raises; it makes exactly one authenticate attempt, and
\* returns False when the server rejects the credentials or the call fails.
C6_ConnectNeverRaises ==
    last.op = "connect" =>
        /\ ~last.res.exc
        /\ Methods = <<"authenticate">>
        /\ (last.rpcs[1].reply.exc \/ last.rpcs[1].reply.val = False) => last.res.val = False

\* connect() while the transport fails
C6_Witness ==
    /\ last.op = "connect"
    /\ last.rpcs[1].reply.exc
    /\ last.res = Ret(False)

\* the remote answered the read of the latest read_record call
ReadAnswered ==
    /\ Len(last.rpcs) >= 1
    /\ last.rpcs[Len(last.rpcs)].method = "read"
    /\ ~last.rpcs[Len(last.rpcs)].reply.exc

\* C7: with a session and a remote that stores records faithfully, a
\* read_record of an identifier create_record returned, with no field list,
\* answers with that record, and the record holds every key the caller
\* submitted for it with the submitted value (the values of create_record,
\* overlaid by those of later update_record calls on the same identifier),
\* whatever calls on other identifiers came in between.
C7_CreateThenRead ==
    (/\ IsToolCall /\ last.name = "read_record" /\ HasRequired
     /\ Get(last.arguments, "fields", <<>>) = <<>>
     /\ last.arguments.record_id \in DOMAIN submitted
     /\ ReadAnswered) =>
        /\ ~last.res.exc
        /\ last.res.val.kind = "Registro"
        /\ last.res.val.parts[3].id = last.arguments.record_id
        /\ \A k \in DOMAIN submitted[last.arguments.record_id] :
             last.res.val.parts[3].vals[k] = submitted[last.arguments.record_id][k]

\* record 1 was created with both fields, record 2 was created after it, and
\* record 1 is read back
C7_Witness ==
    /\ IsToolCall /\ last.name = "read_record" /\ HasRequired
    /\ "fields" \notin DOMAIN last.arguments
    /\ last.arguments.record_id = 1
    /\ 1 \in DOMAIN submitted
    /\ DOMAIN submitted[1] = FieldNames
    /\ 2 \in DOMAIN store
    /\ ReadAnswered
    /\ last.res.val.kind = "Registro"

\* C8: with a session, a delete_record the remote carries out removes the
\* record, which stays removed, and every later read_record of that identifier
\* that the remote answers gets the not-found text, not a record and not the
\* generic error text.
C8_DeleteThenRead ==
    /\ deleted \cap DOMAIN store = {}
    /\ (IsToolCall /\ last.name = "delete_record" /\ ~last.res.exc
        /\ last.res.val.kind = "Registro eliminado") =>
           /\ last.arguments.record_id \notin DOMAIN store
           /\ last.arguments.record_id \in deleted
    /\ (IsToolCall /\ last.name = "read_record" /\ HasRequired
        /\ last.arguments.record_id \in deleted /\ ReadAnswered) =>
           /\ ~last.res.exc
           /\ last.res.val.kind = "No se encontro el registro"

\* a read_record of a deleted identifier, answered by the remote
C8_Witness ==
    /\ IsToolCall /\ last.name = "read_record" /\ HasRequired
    /\ last.arguments.record_id \in deleted
    /\ ReadAnswered
    /\ last.res.val.kind = "No se encontro el registro"

ClaimedClientLimit == 100
EmptyFilter == Get(last.arguments, "domain", <<>>) = <<>>

\* C9: a search with an empty or omitted domain and no limit forwards the
\* default limit and returns at most that many records: through search_records
\* the 10 its schema advertises, through OdooClient.search and search_read 100.
C9_DefaultLimit ==
    /\ (/\ IsToolCall /\ last.name = "search_records"
        /\ "limit" \notin DOMAIN last.arguments /\ EmptyFilter
        /\ Len(last.rpcs) >= 1 /\ last.rpcs[Len(last.rpcs)].method = "search_read") =>
           /\ last.rpcs[Len(last.rpcs)].kw.limit = SchemaLimitDefault
           /\ (~last.res.exc /\ last.res.val.kind = "Encontrados") =>
                /\ last.res.val.parts[1] <= SchemaLimitDefault
                /\ Len(last.res.val.parts[3]) <= SchemaLimitDefault
    /\ (/\ last.op \in {"search", "search_read"}
        /\ "limit" \notin DOMAIN last.arguments /\ EmptyFilter
        /\ Len(last.rpcs) = 1) =>
           /\ last.rpcs[1].kw.limit = ClaimedClientLimit
           /\ ~last.res.exc => Len(last.res.val) <= ClaimedClientLimit

\* search_records without domain and limit on a database of more than ten
\* partners: ten records come back
C9_Witness ==
    /\ IsToolCall /\ last.name = "search_records"
    /\ "limit" \notin DOMAIN last.arguments /\ "domain" \notin DOMAIN last.arguments
    /\ nextId > SchemaLimitDefault + 1
    /\ ~last.res.exc
    /\ last.res.val.kind = "Encontrados"
    /\ last.res.val.parts[1] = SchemaLimitDefault

\* C10: update_record on an identifier that does not exist fails in one way
\* only over all calls: always the 'Error al actualizar' text of a false
\* result, or always the generic error text of a raised exception.
C10_SingleFailureMode == Cardinality(updModes) <= 1


\* the data wrappers accept the object: search() does not fail with
\* 'No conectado a Odoo'
Usable(r) == ~(r.res.exc /\ r.res.val = "No conectado a Odoo")
UsableNow(self) == Usable(search(self, St, "res.partner", <<>>, "ok", "raise"))

\* C11: after any sequence of connect() calls on one OdooClient, whatever the
\* authenticate outcomes, the latest connect() returned True exactly when uid
\* is a usable session identifier afterwards (the data wrappers do not fail
\* with 'No conectado a Odoo').
C11_ConnectAgrees ==
    last.op = "connect" => (last.res = Ret(True) <=> UsableNow(cl))


IsUnknownToolText == last.res.val = UnknownToolText(last.name)

\* C12 as claimed: call_tool with a name outside the catalog of list_tools
\* returns the unknown-tool text in every session state, issues no remote call
\* and leaves the session handle as it was; and no advertised name gets the
\* unknown-tool text.
C12_UnknownAlways ==
    IsToolCall =>
        /\ last.name \notin ToolNames =>
             /\ IsUnknownToolText
             /\ Len(last.rpcs) = 0
             /\ odoo_client = last.pre
        /\ last.name \in ToolNames => last.res.val.kind # "Herramienta desconocida"

\* C12 as amended: with a live session, a name outside the catalog returns the
\* unknown-tool text, issues no remote call and leaves the handle as it was.
\* With no session the call first runs the automatic connection (a new client
\* replaces the handle and authenticate is issued, version too on success):
\* the caller gets the unknown-tool text if a session results and the
\* no-connection text otherwise.  No advertised name gets the unknown-tool text.
C12_UnknownAfterSessionCheck ==
    IsToolCall =>
        /\ (last.name \notin ToolNames /\ Live(last.pre)) =>
             /\ IsUnknownToolText
             /\ Len(last.rpcs) = 0
             /\ last.inits = 0
             /\ odoo_client = last.pre
        /\ (last.name \notin ToolNames /\ ~Live(last.pre)) =>
             /\ last.inits = 1
             /\ odoo_client # NoClient
             /\ IF Live(odoo_client)
                THEN IsUnknownToolText /\ Methods = <<"authenticate", "version">>
                ELSE /\ last.res.val = NoConnectionText
                     /\ Methods = <<"authenticate">>
        /\ last.name \in ToolNames => last.res.val.kind # "Herramienta desconocida"

\* a name outside the catalog called without a session: the automatic
\* connection succeeded and the unknown-tool text came back
C12_Witness ==
    /\ IsToolCall /\ last.name \notin ToolNames
    /\ ~Live(last.pre) /\ Live(odoo_client)
    /\ IsUnknownToolText
    /\ Len(last.rpcs) = 2

\* the same name called while a session exists
C12_WitnessLive ==
    /\ IsToolCall /\ last.name \notin ToolNames
    /\ Live(last.pre)
    /\ IsUnknownToolText
    /\ Len(last.rpcs) = 0


====
